---- MODULE Spec2Model ----
(***************************************************************************)
(* A model of the discrete-event cluster simulator of                      *)
(* src/cluster_simulator.py: Task, Pod, Deployment and SimpleCluster, and  *)
(* the part of the simpy environment they use (the event heap ordered by   *)
(* time, priority and insertion; Initialize events of new processes;       *)
(* Timeout events; run(until)).                                            *)
(*                                                                         *)
(* Every public operation of SimpleCluster is one action.  The random      *)
(* draws of Pod.getMetricUsage are nondeterministic choices from small     *)
(* sets, so every operation is a set-valued operator over "worlds" (a      *)
(* record of all the program's variables) and the action picks one         *)
(* outcome.                                                                *)
(***************************************************************************)
EXTENDS Integers, Sequences, FiniteSets, TLC

VARIABLES
    now,            \* simpy Environment.now
    queue,          \* simpy Environment._queue, in firing order
    deployments,    \* SimpleCluster.deployments: sequence of Deployment records
    pods,           \* the Pod objects that are alive, by object identity
    life_time,      \* Task.life_time of the tasks that are alive
    life_time_base, \* Task.life_time_base of the tasks that are alive
    nr_tasks,       \* SimpleCluster.nr_tasks (submitted)
    nr_done,        \* SimpleCluster.nr_done (completed)
    err,            \* "ok", or the exception that ended the program
    arrival         \* history: the arrival number of each queued task

vars == <<now, queue, deployments, pods, life_time, life_time_base,
          nr_tasks, nr_done, err, arrival>>

----------------------------------------------------------------------------
(* Bounds of the model. *)

MaxTasks == 2       \* tasks submitted in a behaviour
MaxPods == 2        \* pods listed in one deployment
MaxRemove == 1      \* pending removal requests of one deployment
MaxTime == 2        \* the simulated clock stops advancing here
QueueLength == 0    \* Deployment.queue_length
CpuLow == 40        \* the two values a cpu-cost draw takes here
CpuHigh == 60
LifeLong == 9       \* life time of a task that outlives the pipeline

(* Program constants. *)

CpuMax == 100       \* Pod.cpu_max
MemoryMax == 100    \* Pod.memory_max
CpuBase == 5        \* Pod.cpu_base of a SimpleCluster's pods
MemoryBase == 5     \* Pod.memory_base of a SimpleCluster's pods
MemoryTask == 20    \* Deployment.memory_task
CpuTask == 20       \* Deployment.cpu_task
Stages == 3         \* the deployments of SimpleCluster()

(* The inputs of the operations. *)

LifeTimes == {1, LifeLong}      \* life_time of addTasks
Batches == {1, 2}               \* nr_tasks of addTasks
Steps == {1, 2}                 \* steps of update
Actions == {1, -1, 0}           \* an action of updateDeployments; 0 is None

Max(a, b) == IF a >= b THEN a ELSE b

----------------------------------------------------------------------------
(* Worlds. *)

(* The log of one operation: what it did on the way to its final state.   *)
(* It is history, kept beside the program's variables while the operation *)
(* runs, and is no part of the state.                                      *)
NoObs ==
    [killed |-> 0, decs |-> 0, pops |-> 0, outOfOrder |-> 0, started |-> <<>>,
     offered |-> <<>>, finished |-> <<>>, completed |-> 0, res |-> <<>>,
     log |-> <<>>, took |-> {}, undrained |-> 0]

World ==
    [now |-> now, queue |-> queue, deployments |-> deployments, pods |-> pods,
     life_time |-> life_time, life_time_base |-> life_time_base,
     nr_tasks |-> nr_tasks, nr_done |-> nr_done, exc |-> FALSE,
     arrival |-> arrival, obs |-> NoObs]

(* History: one entry of the operation's log: what happened to a task, at  *)
(* which stage and time, with the task's life time then.                   *)
Logged(w, op, task, stage, x) ==
    [w EXCEPT !.obs.log =
        Append(@, [op |-> op, task |-> task, stage |-> stage, time |-> w.now,
                   life |-> w.life_time[task], x |-> x])]

----------------------------------------------------------------------------
(* simpy: the event heap.  An event fires before another one if its time   *)
(* is smaller, or the times are equal and it is URGENT (an Initialize      *)
(* event, or the stop event of run) and the other NORMAL (a Timeout or the *)
(* event of an ended process); otherwise in insertion order.               *)

Before(a, b) ==
    \/ a.time < b.time
    \/ a.time = b.time /\ a.urgent /\ ~b.urgent

(* A variant of schedule: a new event goes before the events of its time   *)
(* and priority.                                                           *)
scheduleFirst(q, e) ==
    LET n == Cardinality({i \in 1..Len(q) : Before(q[i], e)})
    IN  SubSeq(q, 1, n) \o <<e>> \o SubSeq(q, n + 1, Len(q))

schedule(q, e) ==
    LET n == Cardinality({i \in 1..Len(q) : ~Before(e, q[i])})
    IN  SubSeq(q, 1, n) \o <<e>> \o SubSeq(q, n + 1, Len(q))

Initialize(w, p, task, duration, cpu_usage, memory_usage) ==
    [time |-> w.now, urgent |-> TRUE, kind |-> "Initialize", pod |-> p,
     task |-> task, duration |-> duration, cpu_usage |-> cpu_usage,
     memory_usage |-> memory_usage]

Timeout(w, e) ==
    [e EXCEPT !.time = w.now + e.duration, !.urgent = FALSE, !.kind = "Timeout"]

ProcessFailed(w, e) ==
    [time |-> w.now, urgent |-> FALSE, kind |-> "Failed", pod |-> 0,
     task |-> 0, duration |-> 0, cpu_usage |-> 0, memory_usage |-> 0]

----------------------------------------------------------------------------
(* Task *)

NewTask(w, task, life) ==
    [w EXCEPT !.life_time = (task :> life) @@ @,
              !.life_time_base = (task :> life) @@ @]

(* A variant of startProcessing: the life time starts anew at each stage. *)
startProcessingAnew(w, task, elapsed_time) ==
    [w EXCEPT !.life_time[task] = w.life_time_base[task] - elapsed_time]

startProcessing(w, task, elapsed_time) ==
    [w EXCEPT !.life_time[task] = @ - elapsed_time]

(* A variant of isAlive: a task with no life time left is still alive. *)
isAliveAtZero(w, task) == w.life_time[task] >= 0

isAlive(w, task) == w.life_time[task] > 0

----------------------------------------------------------------------------
(* Pod *)

NewPod(k) ==
    [deployment |-> k, cpu |-> CpuBase, memory |-> MemoryBase,
     nr_tasks |-> 0, nr_active_tasks |-> 0, nr_done_tasks |-> 0]

(* canProcess with its two draws; both come from the cpu-cost sampler. *)
canProcess(pod, cpu_usage, memory_usage) ==
    IF pod.cpu + cpu_usage > CpuMax THEN FALSE
    ELSE IF pod.memory + memory_usage > MemoryMax THEN FALSE
    ELSE TRUE

canProcessResults(w, k, p) ==
    {canProcess(w.pods[p], c1, c2) :
        c1 \in w.deployments[k].cpu_draws, c2 \in w.deployments[k].cpu_draws}

(* A variant of PodAddTask: the process is started twice. *)
PodAddTaskTwice(w, p, task, cpu_usage, memory_usage, duration) ==
    [w EXCEPT
        !.pods[p] = [@ EXCEPT !.nr_tasks = @ + 1,
                              !.cpu = @ + cpu_usage,
                              !.memory = @ + memory_usage,
                              !.nr_active_tasks = @ + 1],
        !.queue = schedule(schedule(@, Initialize(w, p, task, duration,
                                                  cpu_usage, memory_usage)),
                           Initialize(w, p, task, duration,
                                      cpu_usage, memory_usage))]

PodAddTask(w, p, task, cpu_usage, memory_usage, duration) ==
    [w EXCEPT
        !.pods[p] = [@ EXCEPT !.nr_tasks = @ + 1,
                              !.cpu = @ + cpu_usage,
                              !.memory = @ + memory_usage,
                              !.nr_active_tasks = @ + 1],
        !.queue = schedule(@, Initialize(w, p, task, duration,
                                         cpu_usage, memory_usage))]

(* A variant of PodTaskEnds: the pod gives back the nominal cost of a task  *)
(* and not the amounts drawn at dispatch.                                  *)
PodTaskEndsNominal(w, e) ==
    [w EXCEPT
        !.pods[e.pod] = [@ EXCEPT !.nr_active_tasks = Max(0, @ - 1),
                                  !.cpu = @ - CpuLow,
                                  !.memory = @ - MemoryTask,
                                  !.nr_done_tasks = @ + 1]]

(* The part of Pod._startTask after the yield. *)
PodTaskEnds(w, e) ==
    [w EXCEPT
        !.pods[e.pod] = [@ EXCEPT !.nr_active_tasks = Max(0, @ - 1),
                                  !.cpu = @ - e.cpu_usage,
                                  !.memory = @ - e.memory_usage,
                                  !.nr_done_tasks = @ + 1]]

----------------------------------------------------------------------------
(* Deployment *)

(* A deployment's profile stands for its constructor's arguments: the     *)
(* queue length, and for (cpu_task, cpu_rand), (memory_task, memory_rand)  *)
(* and (duration_task, duration_rand) the values their draws can take.     *)
NewDeployment(profile) ==
    [pods |-> <<>>, to_remove |-> 0, tasks |-> <<>>,
     queue_length |-> profile.queue_length,
     cpu_draws |-> profile.cpu, memory_draws |-> profile.memory,
     duration_draws |-> profile.duration,
     nr_done |-> 0, nr_dead |-> 0, nr_err5xx |-> 0]

FreshPod(w) ==
    IF DOMAIN w.pods = {} THEN 1
    ELSE 1 + CHOOSE m \in DOMAIN w.pods : \A x \in DOMAIN w.pods : x <= m

addPod(w, k) ==
    LET p == FreshPod(w)
    IN  [w EXCEPT !.pods = (p :> NewPod(k)) @@ @,
                  !.deployments[k].pods = Append(@, p)]

(* A variant of ScanPods: every idle pod is listed, whatever to_remove is. *)
RECURSIVE ScanPodsUnguarded(_, _, _, _)
ScanPodsUnguarded(w, k, i, acc) ==
    LET ps == w.deployments[k].pods
    IN  IF i >= Len(ps) THEN acc
        ELSE IF w.pods[ps[i + 1]].nr_active_tasks = 0
             THEN ScanPodsUnguarded(w, k, i + 1,
                           [to_remove_list |-> Append(acc.to_remove_list, i),
                            to_remove |-> acc.to_remove - 1])
             ELSE ScanPodsUnguarded(w, k, i + 1, acc)

(* update, first loop: the positions (from 0) of the idle pods to remove,  *)
(* and what is left of to_remove.                                          *)
RECURSIVE ScanPods(_, _, _, _)
ScanPods(w, k, i, acc) ==
    LET ps == w.deployments[k].pods
    IN  IF i >= Len(ps) THEN acc
        ELSE IF w.pods[ps[i + 1]].nr_active_tasks = 0 /\ acc.to_remove > 0
             THEN ScanPods(w, k, i + 1,
                           [to_remove_list |-> Append(acc.to_remove_list, i),
                            to_remove |-> acc.to_remove - 1])
             ELSE ScanPods(w, k, i + 1, acc)

(* list.pop(r) on the pod list; r is a position from 0. *)
PopPod(w, k, r) ==
    LET ps == w.deployments[k].pods
        gone == w.pods[ps[r + 1]]
    IN  [w EXCEPT
            !.deployments[k].pods = SubSeq(ps, 1, r) \o SubSeq(ps, r + 2, Len(ps)),
            !.obs.pops = @ + 1,
            !.obs.killed = @ + (IF gone.nr_active_tasks > 0 THEN 1 ELSE 0)]

(* A variant of RemovePods: the second loop without its test of the pool's *)
(* size.                                                                   *)
RECURSIVE RemovePodsNoFloor(_, _, _)
RemovePodsNoFloor(w, k, to_remove_list) ==
    IF to_remove_list = <<>> THEN w
    ELSE LET r == Head(to_remove_list)
             ps == w.deployments[k].pods
         IN  IF r >= Len(ps)
             THEN [w EXCEPT !.exc = TRUE]
             ELSE RemovePodsNoFloor(PopPod(w, k, r), k, Tail(to_remove_list))

(* update, second loop; pop raises IndexError past the end of the list. *)
RECURSIVE RemovePods(_, _, _)
RemovePods(w, k, to_remove_list) ==
    IF to_remove_list = <<>> THEN w
    ELSE LET r == Head(to_remove_list)
             ps == w.deployments[k].pods
         IN  IF Len(ps) > 1
             THEN IF r >= Len(ps)
                  THEN [w EXCEPT !.exc = TRUE]
                  ELSE RemovePods(PopPod(w, k, r), k, Tail(to_remove_list))
             ELSE RemovePods(w, k, Tail(to_remove_list))

(* A variant of tasksPop: tasks.pop(), which takes the last task. *)
tasksPopLast(tasks) ==
    [task |-> tasks[Len(tasks)], rest |-> SubSeq(tasks, 1, Len(tasks) - 1)]

(* tasks.pop(0): the task taken and the queue left. *)
tasksPop(tasks) == [task |-> Head(tasks), rest |-> Tail(tasks)]

(* A variant of StartTask: the task given to the pod stays in the queue. *)
StartTaskKeep(w, k, p) ==
    LET popped == tasksPop(w.deployments[k].tasks)
        w2 == Logged(w, "started", popped.task, k, p)
    IN  {PodAddTask(w2, p, popped.task, c, m, d) :
            c \in w.deployments[k].cpu_draws,
            m \in w.deployments[k].memory_draws,
            d \in w.deployments[k].duration_draws}

(* The dispatch of update: task = tasks.pop(0); pod.addTask(task), with    *)
(* the three draws of Pod.addTask.  obs.outOfOrder counts the dispatches   *)
(* that take a task while an earlier arrival is still queued.              *)
StartTask(w, k, p) ==
    LET popped == tasksPop(w.deployments[k].tasks)
        late == \E t \in {popped.rest[i] : i \in 1..Len(popped.rest)} :
                    w.arrival[t] < w.arrival[popped.task]
        w1 == [w EXCEPT !.deployments[k].tasks = popped.rest,
                        !.obs.outOfOrder = @ + (IF late THEN 1 ELSE 0),
                        !.obs.started = Append(@, [task |-> popped.task, stage |-> k])]
        w2 == [Logged(w1, "started", popped.task, k, p) EXCEPT
                  !.obs.took = @ \cup {p}]
    IN  {PodAddTask(w2, p, popped.task, c, m, d) :
            c \in w.deployments[k].cpu_draws,
            m \in w.deployments[k].memory_draws,
            d \in w.deployments[k].duration_draws}

(* History, at the end of a pass of update: obs.undrained counts the       *)
(* passes that leave a task queued while a pod that was given a task in    *)
(* the pass can accept the head.                                           *)
PassEnds(w, k) ==
    IF /\ Len(w.deployments[k].tasks) > 0
       /\ \E p \in w.obs.took : TRUE \in canProcessResults(w, k, p)
    THEN [w EXCEPT !.obs.undrained = @ + 1]
    ELSE w

(* update, third loop: each pod in turn is offered the head of the queue. *)
RECURSIVE StartTasks(_, _, _)
StartTasks(w, k, i) ==
    LET ps == w.deployments[k].pods
    IN  IF i > Len(ps) THEN {PassEnds(w, k)}
        ELSE IF Len(w.deployments[k].tasks) > 0
             THEN UNION {
                    IF ok
                    THEN UNION {StartTasks(w2, k, i + 1) : w2 \in StartTask(w, k, ps[i])}
                    ELSE StartTasks(w, k, i + 1)
                    : ok \in canProcessResults(w, k, ps[i])}
             ELSE StartTasks(w, k, i + 1)

update(w, k) ==
    LET s == ScanPods(w, k, 0, [to_remove_list |-> <<>>,
                                to_remove |-> w.deployments[k].to_remove])
        w1 == [w EXCEPT !.deployments[k].to_remove = s.to_remove,
                        !.obs.decs = @ + Len(s.to_remove_list),
                        !.obs.took = {}]
        w2 == RemovePods(w1, k, s.to_remove_list)
    IN  IF w2.exc THEN {w2} ELSE StartTasks(w2, k, 1)

(* History: an arrival number later than that of every task queued at k. *)
NextArrival(w, k) ==
    LET q == w.deployments[k].tasks
        used == {w.arrival[q[i]] : i \in 1..Len(q)}
    IN  IF used = {} THEN 1
        ELSE 1 + CHOOSE m \in used : \A x \in used : x <= m

removePod(w, k) ==
    update([w EXCEPT !.deployments[k].to_remove = @ + 1], k)

(* A variant of DeploymentAddTask: a task that is counted as rejected is   *)
(* appended to the queue all the same.                                     *)
DeploymentAddTaskKeep(w, k, task) ==
    LET d == w.deployments[k]
        w0 == [w EXCEPT !.obs.offered =
                  Append(@, [task |-> task, stage |-> k, life |-> w.life_time[task]])]
        w1 == IF Len(d.tasks) > d.queue_length
              THEN [Logged(w0, "rejected", task, k, 0) EXCEPT
                       !.deployments[k].nr_err5xx = @ + 1,
                       !.deployments[k].tasks = Append(@, task),
                       !.arrival = (task :> NextArrival(w, k)) @@ @]
              ELSE [Logged(w0, "queued", task, k, 0) EXCEPT
                       !.deployments[k].tasks = Append(@, task),
                       !.arrival = (task :> NextArrival(w, k)) @@ @]
    IN  update(w1, k)

DeploymentAddTask(w, k, task) ==
    LET d == w.deployments[k]
        w0 == [w EXCEPT !.obs.offered =
                  Append(@, [task |-> task, stage |-> k, life |-> w.life_time[task]])]
        w1 == IF Len(d.tasks) > d.queue_length
              THEN [Logged(w0, "rejected", task, k, 0) EXCEPT
                       !.deployments[k].nr_err5xx = @ + 1]
              ELSE [Logged(w0, "queued", task, k, 0) EXCEPT
                       !.deployments[k].tasks = Append(@, task),
                       !.arrival = (task :> NextArrival(w, k)) @@ @]
    IN  update(w1, k)

RECURSIVE SumPods(_, _, _)
SumPods(w, ps, field) ==
    IF ps = <<>> THEN 0 ELSE w.pods[Head(ps)][field] + SumPods(w, Tail(ps), field)

(* A variant of DeploymentMetrics: the third entry sums the tasks the pods  *)
(* have seen.                                                              *)
DeploymentMetricsSeen(w, k) ==
    LET d == w.deployments[k]
        active == SelectSeq(d.pods, LAMBDA p : w.pods[p].nr_active_tasks > 0)
    IN  <<Len(d.pods), Len(active), SumPods(w, active, "nr_tasks"),
          SumPods(w, d.pods, "cpu"), CpuMax * Len(d.pods),
          SumPods(w, d.pods, "memory"), MemoryMax * Len(d.pods),
          Len(d.tasks), d.nr_done, d.nr_dead, d.nr_err5xx>>

(* The list getMetrics returns after its call of update. *)
DeploymentMetrics(w, k) ==
    LET d == w.deployments[k]
        active == SelectSeq(d.pods, LAMBDA p : w.pods[p].nr_active_tasks > 0)
    IN  <<Len(d.pods), Len(active), SumPods(w, active, "nr_active_tasks"),
          SumPods(w, d.pods, "cpu"), CpuMax * Len(d.pods),
          SumPods(w, d.pods, "memory"), MemoryMax * Len(d.pods),
          Len(d.tasks), d.nr_done, d.nr_dead, d.nr_err5xx>>

----------------------------------------------------------------------------
(* SimpleCluster.taskFinished and Deployment.taskDone *)

(* A variant of taskFinished: pos without its + 1. *)
taskFinishedSameStage(w, task, k) ==
    LET pos == k
    IN  IF pos <= Len(w.deployments)
        THEN DeploymentAddTask(w, pos, task)
        ELSE {[w EXCEPT !.nr_done = @ + 1, !.obs.completed = @ + 1]}

taskFinished(w, task, k) ==
    LET pos == k + 1
    IN  IF pos <= Len(w.deployments)
        THEN DeploymentAddTask(w, pos, task)
        ELSE {[w EXCEPT !.nr_done = @ + 1, !.obs.completed = @ + 1]}

(* A variant of taskDone: a live task is handed on without being counted. *)
taskDoneUncounted(w, k, task) ==
    IF ~isAlive(w, task)
    THEN {[Logged(w, "dead", task, k, 0) EXCEPT !.deployments[k].nr_dead = @ + 1]}
    ELSE taskFinished(
            [Logged(w, "done", task, k, 0) EXCEPT
                      !.obs.finished =
                         Append(@, [task |-> task, stage |-> k,
                                    life |-> w.life_time[task]])],
            task, k)

taskDone(w, k, task) ==
    IF ~isAlive(w, task)
    THEN {[Logged(w, "dead", task, k, 0) EXCEPT !.deployments[k].nr_dead = @ + 1]}
    ELSE taskFinished(
            [Logged(w, "done", task, k, 0) EXCEPT
                      !.deployments[k].nr_done = @ + 1,
                      !.obs.finished =
                         Append(@, [task |-> task, stage |-> k,
                                    life |-> w.life_time[task]])],
            task, k)

----------------------------------------------------------------------------
(* simpy: Environment.step and Environment.run(until). *)

(* A variant of step: the deployment is updated when one of its pods has   *)
(* completed a task.                                                       *)
stepUpdates(w) ==
    LET e == Head(w.queue)
        w1 == [w EXCEPT !.now = e.time, !.queue = Tail(@)]
    IN  CASE e.kind = "Initialize" ->
               {[Logged(startProcessing(w1, e.task, e.duration), "init", e.task,
                        w1.pods[e.pod].deployment, e.duration) EXCEPT
                    !.queue = schedule(@, Timeout(w1, e))]}
          [] e.kind = "Timeout" ->
               {IF o.exc
                THEN [o EXCEPT !.exc = FALSE,
                               !.queue = schedule(@, ProcessFailed(o, e))]
                ELSE o
                : o \in UNION {IF o1.exc THEN {o1}
                               ELSE update(o1, w1.pods[e.pod].deployment)
                               : o1 \in taskDone(
                                     PodTaskEnds(Logged(w1, "ended", e.task,
                                                        w1.pods[e.pod].deployment,
                                                        e.pod), e),
                                     w1.pods[e.pod].deployment, e.task)}}
          [] OTHER -> {[w1 EXCEPT !.exc = TRUE]}

(* One event of the heap is processed.  An Initialize event starts the     *)
(* generator of Pod._startTask up to its yield; a Timeout event resumes it *)
(* to its end; an exception that leaves the generator fails its process,   *)
(* and the event of the failed process re-raises it out of run.            *)
step(w) ==
    LET e == Head(w.queue)
        w1 == [w EXCEPT !.now = e.time, !.queue = Tail(@)]
    IN  CASE e.kind = "Initialize" ->
               {[Logged(startProcessing(w1, e.task, e.duration), "init", e.task,
                        w1.pods[e.pod].deployment, e.duration) EXCEPT
                    !.queue = schedule(@, Timeout(w1, e))]}
          [] e.kind = "Timeout" ->
               {IF o.exc
                THEN [o EXCEPT !.exc = FALSE,
                               !.queue = schedule(@, ProcessFailed(o, e))]
                ELSE o
                : o \in taskDone(PodTaskEnds(Logged(w1, "ended", e.task,
                                                    w1.pods[e.pod].deployment, e.pod),
                                             e),
                                 w1.pods[e.pod].deployment, e.task)}
          [] OTHER -> {[w1 EXCEPT !.exc = TRUE]}

(* run(until = at): the events before the stop event at `at` are           *)
(* processed, then the clock is set to `at`.                               *)
RECURSIVE run(_, _)
run(w, at) ==
    IF w.exc THEN {w}
    ELSE IF w.queue = <<>> \/ Head(w.queue).time >= at
         THEN {[w EXCEPT !.now = at]}
         ELSE UNION {run(w2, at) : w2 \in step(w)}

----------------------------------------------------------------------------
(* SimpleCluster *)

(* A variant of addTasks: the submitted counter counts the tasks that the   *)
(* first deployment did not reject.                                        *)
RECURSIVE addTasksAccepted(_, _, _)
addTasksAccepted(w, nr, life) ==
    IF nr = 0 \/ w.exc THEN {w}
    ELSE LET task == w.nr_tasks + 1
             w1 == NewTask(w, task, life)
         IN  UNION {addTasksAccepted(
                        [w2 EXCEPT !.nr_tasks =
                            @ + 1 - (w2.deployments[1].nr_err5xx
                                     - w.deployments[1].nr_err5xx)],
                        nr - 1, life) :
                        w2 \in DeploymentAddTask(w1, 1, task)}

RECURSIVE addTasks(_, _, _)
addTasks(w, nr, life) ==
    IF nr = 0 \/ w.exc THEN {w}
    ELSE LET task == w.nr_tasks + 1
             w1 == NewTask([w EXCEPT !.nr_tasks = @ + 1], task, life)
         IN  UNION {addTasks(w2, nr - 1, life) :
                        w2 \in DeploymentAddTask(w1, 1, task)}

(* A variant of ClusterUpdate: the clock moves and no event is processed. *)
ClusterUpdateNoRun(w, steps) == {[w EXCEPT !.now = @ + steps]}

ClusterUpdate(w, steps) == run(w, w.now + steps)

(* A variant of getMetrics: the cluster's update() is called first, as the *)
(* class comment of SimpleCluster has it.                                  *)
RECURSIVE getMetricsAfterUpdate(_, _, _)
getMetricsAfterUpdate(w, k, res) ==
    IF k > Len(w.deployments) THEN {[w EXCEPT !.obs.res = res]}
    ELSE IF k = 1 /\ Len(res) = 2 /\ w.obs.res = <<>>
         THEN UNION {getMetricsAfterUpdate([w2 EXCEPT !.obs.res = <<0>>], 1,
                                           <<w2.nr_tasks, w2.nr_done>>) :
                        w2 \in run(w, w.now + 1)}
         ELSE UNION {
                IF w2.exc THEN {w2}
                ELSE getMetricsAfterUpdate(w2, k + 1,
                                           Append(res, DeploymentMetrics(w2, k)))
                : w2 \in update(w, k)}

(* getMetrics from deployment k on; res is the list built so far. *)
RECURSIVE getMetrics(_, _, _)
getMetrics(w, k, res) ==
    IF k > Len(w.deployments) THEN {[w EXCEPT !.obs.res = res]}
    ELSE UNION {
           IF w2.exc THEN {w2}
           ELSE getMetrics(w2, k + 1, Append(res, DeploymentMetrics(w2, k)))
           : w2 \in update(w, k)}

(* A variant of updateDeployments: every action other than 1 removes a pod. *)
RECURSIVE updateDeploymentsElse(_, _, _)
updateDeploymentsElse(w, actions, k) ==
    IF k > Len(actions) \/ k > Len(w.deployments) \/ w.exc THEN {w}
    ELSE IF actions[k] = 1
         THEN updateDeploymentsElse(addPod(w, k), actions, k + 1)
         ELSE UNION {updateDeploymentsElse(w2, actions, k + 1) :
                        w2 \in removePod(w, k)}

(* updateDeployments from position k on; zip stops at the shorter list. *)
RECURSIVE updateDeployments(_, _, _)
updateDeployments(w, actions, k) ==
    IF k > Len(actions) \/ k > Len(w.deployments) \/ w.exc THEN {w}
    ELSE IF actions[k] = 1
         THEN updateDeployments(addPod(w, k), actions, k + 1)
         ELSE IF actions[k] = -1
              THEN UNION {updateDeployments(w2, actions, k + 1) :
                             w2 \in removePod(w, k)}
              ELSE updateDeployments(w, actions, k + 1)

----------------------------------------------------------------------------
(* Objects nothing refers to are dropped, and the pods are renamed in the  *)
(* order in which the program reaches them (the deployments' lists, then   *)
(* the processes in the heap), so that a state does not depend on object   *)
(* identities.                                                             *)

RECURSIVE ListedPods(_, _)
ListedPods(w, k) ==
    IF k > Len(w.deployments) THEN <<>>
    ELSE w.deployments[k].pods \o ListedPods(w, k + 1)

Processes(w) == SelectSeq(w.queue, LAMBDA e : e.kind # "Failed")

RECURSIVE Distinct(_, _)
Distinct(seq, seen) ==
    IF seq = <<>> THEN <<>>
    ELSE IF Head(seq) \in seen THEN Distinct(Tail(seq), seen)
         ELSE <<Head(seq)>> \o Distinct(Tail(seq), seen \cup {Head(seq)})

Normalize(w) ==
    LET procs == Processes(w)
        order == Distinct(ListedPods(w, 1) \o [i \in 1..Len(procs) |-> procs[i].pod], {})
        name(p) == CHOOSE i \in 1..Len(order) : order[i] = p
        queued == UNION {{w.deployments[k].tasks[i] :
                            i \in 1..Len(w.deployments[k].tasks)} :
                         k \in 1..Len(w.deployments)}
        live == queued \cup {procs[i].task : i \in 1..Len(procs)}
        rank(k, t) == Cardinality({u \in queued :
                         /\ \E i \in 1..Len(w.deployments[k].tasks) :
                               w.deployments[k].tasks[i] = u
                         /\ w.arrival[u] <= w.arrival[t]})
    IN  [w EXCEPT
            !.pods = [i \in 1..Len(order) |-> w.pods[order[i]]],
            !.deployments = [k \in 1..Len(w.deployments) |->
                [w.deployments[k] EXCEPT
                    !.pods = [i \in 1..Len(@) |-> name(@[i])]]],
            !.queue = [i \in 1..Len(w.queue) |->
                IF w.queue[i].kind = "Failed" THEN w.queue[i]
                ELSE [w.queue[i] EXCEPT !.pod = name(@)]],
            !.life_time = [t \in live |-> w.life_time[t]],
            !.life_time_base = [t \in live |-> w.life_time_base[t]],
            !.arrival = [t \in queued |->
                rank(CHOOSE k \in 1..Len(w.deployments) :
                        \E i \in 1..Len(w.deployments[k].tasks) :
                            w.deployments[k].tasks[i] = t, t)]]

Install(w0) ==
    LET w == Normalize(w0)
    IN  /\ now' = w.now
        /\ queue' = w.queue
        /\ deployments' = w.deployments
        /\ pods' = w.pods
        /\ life_time' = w.life_time
        /\ life_time_base' = w.life_time_base
        /\ nr_tasks' = w.nr_tasks
        /\ nr_done' = w.nr_done
        /\ err' = IF w.exc THEN "IndexError" ELSE "ok"
        /\ arrival' = w.arrival

----------------------------------------------------------------------------
(* The state after SimpleCluster(durations, pods), with the deployments'   *)
(* profiles.                                                               *)

Profile(queue_length) ==
    [queue_length |-> queue_length, cpu |-> {CpuLow, CpuHigh},
     memory |-> {MemoryTask}, duration |-> {1, 2}]

(* A profile whose pods refuse a second task: every cpu draw is CpuHigh. *)
BusyProfile(queue_length) ==
    [queue_length |-> queue_length, cpu |-> {CpuHigh},
     memory |-> {MemoryTask}, duration |-> {1, 2}]

(* A profile of tasks that cost little cpu and much memory: every cpu draw *)
(* is cpu_task's default and every memory draw is CpuHigh.                 *)
MemoryProfile(queue_length) ==
    [queue_length |-> queue_length, cpu |-> {CpuTask},
     memory |-> {CpuHigh}, duration |-> {1, 2}]

RECURSIVE StartingPods(_, _, _)
StartingPods(w, k, n) ==
    IF n = 0 THEN w ELSE StartingPods(addPod(w, k), k, n - 1)

RECURSIVE NewDeployments(_, _, _, _)
NewDeployments(w, profiles, starting_pods, k) ==
    IF k > Len(starting_pods) \/ k > Len(profiles) THEN w
    ELSE NewDeployments(
            StartingPods([w EXCEPT !.deployments = Append(@, NewDeployment(profiles[k]))],
                         k, starting_pods[k]),
            profiles, starting_pods, k + 1)

NewCluster(profiles, starting_pods) ==
    NewDeployments(
        [now |-> 0, queue |-> <<>>, deployments |-> <<>>, pods |-> <<>>,
         life_time |-> <<>>, life_time_base |-> <<>>, nr_tasks |-> 0,
         nr_done |-> 0, exc |-> FALSE, arrival |-> <<>>, obs |-> NoObs],
        profiles, starting_pods, 1)

InitCluster(profiles, starting_pods) ==
    LET w == NewCluster(profiles, starting_pods)
    IN  /\ now = w.now
        /\ queue = w.queue
        /\ deployments = w.deployments
        /\ pods = w.pods
        /\ life_time = w.life_time
        /\ life_time_base = w.life_time_base
        /\ nr_tasks = w.nr_tasks
        /\ nr_done = w.nr_done
        /\ err = "ok"
        /\ arrival = w.arrival

----------------------------------------------------------------------------
(* The runs of an operation from the current state: every final world it   *)
(* can reach, over its inputs and its draws.                               *)

AddTasksRuns(nr, life) == addTasks(World, nr, life)

UpdateRuns(steps) == ClusterUpdate(World, steps)

GetMetricsRuns == getMetrics(World, 1, <<nr_tasks, nr_done>>)

ActionLists == UNION {[1..n -> Actions] : n \in 0..Len(deployments)}

UpdateDeploymentsRuns(actions) == updateDeployments(World, actions, 1)

AnyRun ==
    IF err # "ok" THEN {}
    ELSE UNION {
           UNION {AddTasksRuns(nr, life) : nr \in Batches, life \in LifeTimes},
           UNION {UpdateRuns(steps) : steps \in Steps},
           GetMetricsRuns,
           UNION {UpdateDeploymentsRuns(actions) : actions \in ActionLists} }

----------------------------------------------------------------------------
(* The operations of SimpleCluster, as actions.  An exception ends the     *)
(* program.                                                                *)

AddTasks(maxTasks, lifes) ==
    /\ err = "ok"
    /\ \E nr \in Batches, life \in lifes :
          /\ nr_tasks + nr <= maxTasks
          /\ \E w \in AddTasksRuns(nr, life) : Install(w)

Update(maxTime) ==
    /\ err = "ok"
    /\ \E steps \in Steps :
          /\ now + steps <= maxTime
          /\ \E w \in UpdateRuns(steps) : Install(w)

GetMetrics ==
    /\ err = "ok"
    /\ \E w \in GetMetricsRuns : Install(w)

UpdateDeployments(maxPods, maxRemove) ==
    /\ err = "ok"
    /\ \E actions \in ActionLists :
          /\ \A k \in 1..Len(actions) :
                /\ actions[k] = 1 => Len(deployments[k].pods) < maxPods
                /\ actions[k] = -1 => deployments[k].to_remove < maxRemove
          /\ \E w \in UpdateDeploymentsRuns(actions) : Install(w)

----------------------------------------------------------------------------
(* Spec: one deployment with one starting pod.                             *)

Init == InitCluster(<<Profile(QueueLength)>>, <<1>>)

Next ==
    \/ AddTasks(MaxTasks, LifeTimes)
    \/ Update(MaxTime)
    \/ GetMetrics
    \/ UpdateDeployments(MaxPods, MaxRemove)

Spec == Init /\ [][Next]_vars

(* SpecWide: the same deployment with one more task, pod and pending       *)
(* removal, and long-lived tasks only.                                     *)

NextWide ==
    \/ AddTasks(MaxTasks + 1, {LifeLong})
    \/ Update(MaxTime)
    \/ GetMetrics
    \/ UpdateDeployments(MaxPods + 1, MaxRemove + 1)

SpecWide == Init /\ [][NextWide]_vars

(* SpecBusy: the deployment of Spec with pods that refuse a second task. *)

InitBusy == InitCluster(<<BusyProfile(QueueLength)>>, <<1>>)

SpecBusy == InitBusy /\ [][Next]_vars

(* SpecQueue: a deployment of MaxPods pods that refuse a second task, with *)
(* room for one more waiting task, and no scaling.                         *)

InitQueue == InitCluster(<<BusyProfile(QueueLength + 1)>>, <<MaxPods>>)

NextQueue ==
    \/ AddTasks(MaxTasks + 2, LifeTimes)
    \/ Update(MaxTime)
    \/ GetMetrics

SpecQueue == InitQueue /\ [][NextQueue]_vars

(* SpecPipe: SimpleCluster() with its three deployments of one pod each,   *)
(* pods that refuse a second task, and no scaling.  A task of life time    *)
(* Stages dies on the way unless every stage takes one time unit, and then *)
(* at the last stage.                                                      *)

InitPipe ==
    InitCluster([k \in 1..Stages |-> BusyProfile(QueueLength)],
                [k \in 1..Stages |-> 1])

NextPipe ==
    \/ AddTasks(MaxTasks + 1, {Stages, LifeLong})
    \/ Update(MaxTime + 2)
    \/ GetMetrics

SpecPipe == InitPipe /\ [][NextPipe]_vars

(* SpecScale: two deployments in a row, each with one starting pod that     *)
(* refuses a second task, long-lived tasks, and scaling.                   *)

InitScale ==
    InitCluster(<<BusyProfile(QueueLength), BusyProfile(QueueLength)>>, <<1, 1>>)

NextScale ==
    \/ AddTasks(MaxTasks - 1, {LifeLong})
    \/ Update(MaxTime)
    \/ GetMetrics
    \/ UpdateDeployments(MaxPods, MaxRemove)

SpecScale == InitScale /\ [][NextScale]_vars

(* SpecFunnel: two deployments in a row, the first with a pod for every    *)
(* task and the second with one pod; the pods refuse a second task; no     *)
(* scaling.  Tasks that leave the first stage together meet at the second. *)

InitFunnel ==
    InitCluster(<<BusyProfile(QueueLength), BusyProfile(QueueLength)>>,
                <<MaxTasks + 1, 1>>)

NextFunnel ==
    \/ AddTasks(MaxTasks + 1, LifeTimes)
    \/ Update(MaxTime + 1)
    \/ GetMetrics

SpecFunnel == InitFunnel /\ [][NextFunnel]_vars

(* SpecSubmit: the deployment of SpecBusy, sent more tasks than its pod    *)
(* and its queue hold; no scaling.                                         *)

NextSubmit ==
    \/ AddTasks(MaxTasks + 2, LifeTimes)
    \/ Update(MaxTime)
    \/ GetMetrics

SpecSubmit == InitBusy /\ [][NextSubmit]_vars

(* SpecLive: the deployment of SpecBusy, with scaling, where the clock     *)
(* keeps being advanced: tasks are submitted, metrics read and pods scaled *)
(* up to time MaxTime, and update is called until every task dispatched by *)
(* then (a duration is 2 at most) has had the time to end.                 *)

NextLive ==
    \/ now <= MaxTime /\ AddTasks(MaxTasks - 1, LifeTimes)
    \/ Update(MaxTime + 3)
    \/ now <= MaxTime /\ GetMetrics
    \/ now <= MaxTime /\ UpdateDeployments(MaxPods, MaxRemove)

SpecLive == InitBusy /\ [][NextLive]_vars /\ WF_vars(Update(MaxTime + 3))

(* SpecDrain: a deployment with one pod that takes a second task if both   *)
(* cost little, and room for one more waiting task; no scaling.            *)

InitDrain == InitCluster(<<Profile(QueueLength + 1)>>, <<1>>)

NextDrain ==
    \/ AddTasks(MaxTasks + 1, {LifeLong})
    \/ Update(MaxTime)
    \/ GetMetrics

SpecDrain == InitDrain /\ [][NextDrain]_vars

(* SpecMemory: a deployment with one pod, of tasks that cost little cpu and *)
(* much memory; no scaling.                                                *)

InitMemory == InitCluster(<<MemoryProfile(QueueLength)>>, <<1>>)

NextMemory ==
    \/ AddTasks(MaxTasks + 1, LifeTimes)
    \/ Update(MaxTime)
    \/ GetMetrics

SpecMemory == InitMemory /\ [][NextMemory]_vars

----------------------------------------------------------------------------
(* The claims. *)

RECURSIVE SumRes(_, _)
SumRes(res, i) ==
    IF i > Len(res) THEN 0
    ELSE res[i][8] + res[i][3] + res[i][11] + res[i][10] + SumRes(res, i + 1)

(* C1: at every getMetrics observation, submitted = the sum over the       *)
(* deployments of (queue length + active tasks + rejected + dead) +        *)
(* completed.                                                              *)
Conservation ==
    err = "ok" =>
        \A w \in GetMetricsRuns :
            ~w.exc => w.obs.res[1] = SumRes(w.obs.res, 3) + w.obs.res[2]

(* C2: in every pass of update, whatever operation runs it, a pod taken    *)
(* out of the pod list has no active task when it is removed.              *)
NoActivePodRemoved == \A w \in AnyRun : w.obs.killed = 0

(* C3: every deployment holds at least one pod in every reachable state. *)
AtLeastOnePod ==
    \A k \in 1..Len(deployments) : Len(deployments[k].pods) >= 1

(* C3 witness: a removal was requested of a deployment at its last pod. *)
RemovalAtFloor ==
    \E k \in 1..Len(deployments) :
        /\ Len(deployments[k].pods) = 1
        /\ deployments[k].to_remove > 0

(* C4: the tasks waiting in a deployment's queue never number more than    *)
(* queue_length.                                                           *)
QueueWithinLength ==
    \A k \in 1..Len(deployments) :
        Len(deployments[k].tasks) <= deployments[k].queue_length

(* C5: Scenario A: a deployment with one pod and queue_length 0 has been  *)
(* sent two tasks back-to-back, the pod being busy with the first; the     *)
(* second is rejected, neither queued nor dispatched.                      *)
ScenarioA ==
    ( /\ err = "ok" /\ nr_tasks = 2 /\ now = 0
      /\ Len(deployments) = 1
      /\ Len(deployments[1].pods) = 1
      /\ deployments[1].queue_length = 0
      /\ deployments[1].to_remove = 0
      /\ LET pod == pods[deployments[1].pods[1]]
         IN  pod.nr_tasks + Len(deployments[1].tasks) + deployments[1].nr_err5xx = 2 )
    => /\ deployments[1].nr_err5xx = 1
       /\ deployments[1].tasks = <<>>
       /\ pods[deployments[1].pods[1]].nr_tasks = 1

(* C6, as stated: two calls of getMetrics in a row return identical        *)
(* results.                                                                *)
MetricsIdempotent ==
    err = "ok" =>
        \A w1 \in GetMetricsRuns : ~w1.exc =>
            \A w2 \in getMetrics([w1 EXCEPT !.obs = NoObs], 1,
                                 <<w1.nr_tasks, w1.nr_done>>) :
                ~w2.exc => w2.obs.res = w1.obs.res

Settled(w) ==
    \A k \in 1..Len(w.deployments) :
        w.deployments[k].tasks = <<>> /\ w.deployments[k].to_remove = 0

SameCounters(r1, r2) ==
    /\ r2[1] = r1[1] /\ r2[2] = r1[2]
    /\ \A i \in 3..Len(r1) :
          /\ r2[i][9] = r1[i][9] /\ r2[i][10] = r1[i][10] /\ r2[i][11] = r1[i][11]
          /\ r2[i][8] <= r1[i][8]

(* C6, amended: the second of two calls of getMetrics in a row returns the *)
(* same submitted, completed, done, dead and rejection counters and no     *)
(* longer queue; it returns identical results when the first call left no  *)
(* task queued and no removal pending.                                     *)
MetricsRepeat ==
    err = "ok" =>
        \A w1 \in GetMetricsRuns : ~w1.exc =>
            \A w2 \in getMetrics([w1 EXCEPT !.obs = NoObs], 1,
                                 <<w1.nr_tasks, w1.nr_done>>) :
                ~w2.exc =>
                    /\ SameCounters(w1.obs.res, w2.obs.res)
                    /\ Settled(w1) => w2.obs.res = w1.obs.res

(* C6 witness: tasks are being processed and a second call of getMetrics   *)
(* returns another result than the first.                                  *)
MetricsDiffer ==
    /\ err = "ok"
    /\ queue # <<>>
    /\ \E w1 \in GetMetricsRuns : ~w1.exc /\
          \E w2 \in getMetrics([w1 EXCEPT !.obs = NoObs], 1,
                               <<w1.nr_tasks, w1.nr_done>>) :
              ~w2.exc /\ w2.obs.res # w1.obs.res

(* C7: to_remove is decremented only when a pod is removed: in every       *)
(* operation the decrements number the pods removed.                       *)
RemovalsMatchDecrements == \A w \in AnyRun : w.obs.decs = w.obs.pops

(* C8: no operation ends in an error. *)
NoError == err = "ok"

(* C9: a deployment dispatches its tasks in the order of their arrival: no *)
(* dispatch takes a task while one that arrived earlier is queued, and the *)
(* queue holds the tasks in the order of arrival.                          *)
FifoDispatch ==
    /\ \A w \in AnyRun : w.obs.outOfOrder = 0
    /\ \A k \in 1..Len(deployments) :
          \A i, j \in 1..Len(deployments[k].tasks) :
              i < j => arrival[deployments[k].tasks[i]] < arrival[deployments[k].tasks[j]]

(* C9 witness: two tasks wait in a queue and an operation dispatches one   *)
(* of them.                                                                *)
DispatchFromQueue ==
    \E k \in 1..Len(deployments) :
        /\ Len(deployments[k].tasks) >= 2
        /\ \E w \in AnyRun :
              \E i \in 1..Len(w.obs.started) :
                  w.obs.started[i].task = deployments[k].tasks[1]

Onward(w) ==
    SelectSeq(w.obs.finished, LAMBDA f : f.stage < Len(w.deployments))

AtLast(w) ==
    SelectSeq(w.obs.finished, LAMBDA f : f.stage = Len(w.deployments))

(* C10: a task that finishes alive at a stage that is not the last is      *)
(* handed, at once and with its life time as it is, to the next stage's    *)
(* addTask and to no other; the completed counter counts the tasks that    *)
(* finish alive at the last stage, each once.                              *)
PipelineRouting ==
    /\ \A w \in AnyRun :
          /\ w.nr_done = nr_done + Len(AtLast(w))
          /\ w.obs.completed = Len(AtLast(w))
          /\ \A i, j \in 1..Len(AtLast(w)) :
                i # j => AtLast(w)[i].task # AtLast(w)[j].task
    /\ err = "ok" =>
          \A steps \in Steps : \A w \in UpdateRuns(steps) :
              w.obs.offered =
                  [i \in 1..Len(Onward(w)) |-> [Onward(w)[i] EXCEPT !.stage = @ + 1]]

(* C10 witness: a task has been through every stage and is counted, and    *)
(* a second one was handed on by the first stage.                          *)
ThroughThePipeline ==
    /\ Len(deployments) = Stages
    /\ nr_done >= 1
    /\ deployments[1].nr_done >= 2

ActionAt(actions, k) == IF k <= Len(actions) THEN actions[k] ELSE 0

AllBusy(k) ==
    \A i \in 1..Len(deployments[k].pods) :
        pods[deployments[k].pods[i]].nr_active_tasks > 0

(* What updateDeployments(actions) did to deployment k in the run w. *)
ActedPerPosition(w, actions, k) ==
    LET a == ActionAt(actions, k)
        d0 == deployments[k]
        d1 == w.deployments[k]
    IN  CASE a = 1 ->
               /\ Len(d1.pods) = Len(d0.pods) + 1
               /\ SubSeq(d1.pods, 1, Len(d0.pods)) = d0.pods
               /\ [d1 EXCEPT !.pods = d0.pods] = d0
          [] a = -1 ->
               /\ Len(d1.pods) <= Len(d0.pods)
               /\ Len(d0.pods) - Len(d1.pods) <= d0.to_remove + 1
               /\ AllBusy(k) => d1.pods = d0.pods /\ d1.to_remove = d0.to_remove + 1
               /\ d1.nr_done = d0.nr_done /\ d1.nr_dead = d0.nr_dead
               /\ d1.nr_err5xx = d0.nr_err5xx
          [] OTHER ->
               /\ d1 = d0
               /\ \A i \in 1..Len(d0.pods) : w.pods[d0.pods[i]] = pods[d0.pods[i]]

(* C11: updateDeployments acts per position: 1 appends one pod to that     *)
(* deployment and changes nothing else of it; -1 removes no pod while all  *)
(* the deployment's pods are busy, and then leaves one more removal        *)
(* pending; any other or missing action leaves that deployment and its     *)
(* pods as they were, whatever the actions of the other positions.         *)
PerPositionScaling ==
    err = "ok" =>
        \A actions \in ActionLists :
            \A w \in UpdateDeploymentsRuns(actions) :
                ~w.exc => \A k \in 1..Len(deployments) :
                              ActedPerPosition(w, actions, k)

(* C11 witness: Scenario D: the first deployment was given a pod, the      *)
(* second has a removal pending while all its pods are busy.               *)
ScenarioD ==
    /\ Len(deployments) >= 2
    /\ Len(deployments[1].pods) >= 2
    /\ deployments[2].to_remove > 0
    /\ AllBusy(2)

(* The entries of a log with one of the given ops. *)
Entries(w, ops) == SelectSeq(w.obs.log, LAMBDA l : l.op \in ops)

CountAt(w, op, k) ==
    Len(SelectSeq(w.obs.log, LAMBDA l : l.op = op /\ l.stage = k))

(* The tasks a world's queues and processes refer to. *)
Resident(w) ==
    UNION {{w.deployments[k].tasks[i] : i \in 1..Len(w.deployments[k].tasks)} :
              k \in 1..Len(w.deployments)}
    \cup {w.queue[i].task : i \in {j \in 1..Len(w.queue) : w.queue[j].kind # "Failed"}}

(* C12: when a task's processing ends, exactly one of the owning           *)
(* deployment's dead and done counters grows, by one: the dead counter if  *)
(* and only if the task's life time is <= 0 then.  The counters change in  *)
(* no other way, a task of life time 1 is always counted dead, and a dead  *)
(* task goes nowhere: nothing happens to it afterwards, no queue and no    *)
(* process holds it, and the cluster's completed counter grows only by the *)
(* tasks the last deployment has done.                                     *)
DeadOrDone ==
    \A w \in AnyRun :
        LET log == w.obs.log
        IN  /\ \A i \in 1..Len(log) : log[i].op = "ended" =>
                  /\ i < Len(log)
                  /\ log[i + 1].op = IF log[i].life <= 0 THEN "dead" ELSE "done"
                  /\ log[i + 1].task = log[i].task
                  /\ log[i + 1].stage = log[i].stage
                  /\ w.life_time_base[log[i].task] = 1 => log[i + 1].op = "dead"
            /\ \A i \in 1..Len(log) : log[i].op \in {"dead", "done"} =>
                  /\ i > 1
                  /\ log[i - 1].op = "ended"
            /\ \A i \in 1..Len(log) : log[i].op = "dead" =>
                  /\ \A j \in (i + 1)..Len(log) : log[j].task # log[i].task
                  /\ log[i].task \notin Resident(w)
            /\ \A k \in 1..Len(deployments) :
                  /\ w.deployments[k].nr_dead =
                        deployments[k].nr_dead + CountAt(w, "dead", k)
                  /\ w.deployments[k].nr_done =
                        deployments[k].nr_done + CountAt(w, "done", k)
            /\ w.nr_done = nr_done + CountAt(w, "done", Len(deployments))

(* C12 witness: Scenario B before a further deployment: of the tasks       *)
(* submitted, one has ended dead and one done at the first deployment.     *)
ScenarioB ==
    /\ Len(deployments) >= 2
    /\ deployments[1].nr_dead >= 1
    /\ deployments[1].nr_done >= 1

(* C13: a task rejected by Deployment.addTask is counted once in that      *)
(* deployment's nr_err5xx; nothing happens to it afterwards (it is not     *)
(* queued, dispatched, offered again, ended or counted), and when the      *)
(* operation is over no queue and no process refers to it, so that no      *)
(* later operation can reach it.                                           *)
RejectedIsTerminal ==
    \A w \in AnyRun :
        LET log == w.obs.log
        IN  /\ \A i \in 1..Len(log) : log[i].op = "rejected" =>
                  /\ \A j \in (i + 1)..Len(log) : log[j].task # log[i].task
                  /\ log[i].task \notin Resident(w)
            /\ \A k \in 1..Len(deployments) :
                  w.deployments[k].nr_err5xx =
                      deployments[k].nr_err5xx + CountAt(w, "rejected", k)

(* C13 witness: a task that was processed at the first stage has been      *)
(* rejected at the second.                                                 *)
RejectedDownstream ==
    /\ Len(deployments) >= 2
    /\ deployments[2].nr_err5xx >= 1

(* C14: addTasks(n, life_time) adds n to the submitted counter and offers  *)
(* n new tasks of that life time, one after the other, to the first        *)
(* deployment and to no other, however many of them are rejected.          *)
AddTasksCountsOffers ==
    err = "ok" =>
        \A nr \in Batches, life \in LifeTimes :
            \A w \in AddTasksRuns(nr, life) :
                ~w.exc =>
                    /\ w.nr_tasks = nr_tasks + nr
                    /\ w.obs.offered =
                          [i \in 1..nr |-> [task |-> nr_tasks + i, stage |-> 1,
                                            life |-> life]]
                    /\ \A i \in 1..nr : nr_tasks + i \notin Resident(World)
                    /\ CountAt(w, "rejected", 1) + CountAt(w, "queued", 1) = nr

(* C14 witness: tasks were submitted and the first deployment rejected     *)
(* some and took others.                                                   *)
SubmittedAndRejected ==
    /\ deployments[1].nr_err5xx >= 1
    /\ nr_tasks > deployments[1].nr_err5xx

(* The processes of pod p that have not ended: the tasks it was given and  *)
(* whose completion has not fired.                                         *)
Charged(p) == SelectSeq(queue, LAMBDA e : e.kind # "Failed" /\ e.pod = p)

RECURSIVE SumField(_, _)
SumField(evs, field) ==
    IF evs = <<>> THEN 0 ELSE Head(evs)[field] + SumField(Tail(evs), field)

(* C15: in every reachable state a pod's cpu and memory are its base plus  *)
(* the amounts drawn at the dispatch of the tasks whose completion has not *)
(* fired, and its active-task count is their number; a pod with no active  *)
(* task is at cpu_base and memory_base.                                    *)
PodAccounting ==
    \A p \in DOMAIN pods :
        /\ pods[p].nr_active_tasks = Len(Charged(p))
        /\ pods[p].cpu = CpuBase + SumField(Charged(p), "cpu_usage")
        /\ pods[p].memory = MemoryBase + SumField(Charged(p), "memory_usage")
        /\ pods[p].nr_active_tasks = 0 =>
              pods[p].cpu = CpuBase /\ pods[p].memory = MemoryBase

(* C15 witness: a pod that completed two tasks has no active task. *)
BackToBase ==
    \E p \in DOMAIN pods :
        pods[p].nr_done_tasks >= 2 /\ pods[p].nr_active_tasks = 0

(* The tasks given to a pod of deployment k so far, and those of them      *)
(* that Deployment.taskDone has counted.                                   *)
Ended(k) == deployments[k].nr_done + deployments[k].nr_dead

Dispatched(k) ==
    Ended(k) + Len(SelectSeq(queue, LAMBDA e : e.kind # "Failed"
                                               /\ pods[e.pod].deployment = k))

(* C16: while update keeps advancing the clock, every task given to a pod  *)
(* is eventually passed to Deployment.taskDone: the n-th dispatch is       *)
(* followed by the n-th count, whatever scaling happens in between (or the *)
(* program has ended with the error of C8).                                *)
CompletionFires ==
    \A n \in 1..(MaxTasks - 1) :
        (Dispatched(1) >= n) ~> (Ended(1) >= n \/ err # "ok")

(* C16 witness: a task's completion has fired while a removal was pending  *)
(* on its deployment.                                                      *)
EndedUnderRemoval ==
    /\ Ended(1) >= 1
    /\ deployments[1].to_remove > 0

(* The processes of a world that hold task t at stage k, and the entries   *)
(* of its log about t at k.                                                *)
InProcess(w, t, k) ==
    Len(SelectSeq(w.queue, LAMBDA e : /\ e.kind # "Failed"
                                      /\ e.task = t
                                      /\ w.pods[e.pod].deployment = k))

CountOf(w, op, t, k) ==
    Len(SelectSeq(w.obs.log, LAMBDA l : l.op = op /\ l.task = t /\ l.stage = k))

(* C17: a completion fires once for each dispatch and is never cancelled:  *)
(* in every operation, for every task and stage, the tasks in process      *)
(* before it and those dispatched by it are those whose completion fired   *)
(* in it and those still in process after it; a task is dispatched at most *)
(* once at a stage, and a completion fires only for a task that was in     *)
(* process or was dispatched earlier in the operation.                     *)
CompletionOncePerDispatch ==
    \A w \in AnyRun :
        \A t \in DOMAIN w.life_time : \A k \in 1..Len(deployments) :
            /\ InProcess(World, t, k) + CountOf(w, "started", t, k)
                  = CountOf(w, "ended", t, k) + InProcess(w, t, k)
            /\ InProcess(World, t, k) + CountOf(w, "started", t, k) <= 1
            /\ \A i \in 1..Len(w.obs.log) :
                  LET l == w.obs.log[i]
                  IN  (l.op = "ended" /\ l.task = t /\ l.stage = k) =>
                         \/ InProcess(World, t, k) = 1
                         \/ \E j \in 1..(i - 1) :
                               /\ w.obs.log[j].op = "started"
                               /\ w.obs.log[j].task = t
                               /\ w.obs.log[j].stage = k

(* C17 witness: completions have fired at both stages of a pipeline. *)
EndedAtBothStages ==
    /\ Len(deployments) >= 2
    /\ Ended(1) >= 2
    /\ Ended(2) >= 1

RECURSIVE Queued(_, _)
Queued(t, k) ==
    IF k > Len(deployments) THEN 0
    ELSE Len(SelectSeq(deployments[k].tasks, LAMBDA u : u = t)) + Queued(t, k + 1)

Processing(t) == Len(SelectSeq(queue, LAMBDA e : e.kind # "Failed" /\ e.task = t))

(* C18: in every reachable state a task is in one place at most: in one    *)
(* position of one deployment's queue, or in one process of one pod, and   *)
(* never both.                                                             *)
OneResidence ==
    \A t \in Resident(World) : Queued(t, 1) + Processing(t) = 1

(* C18 witness: a task that the first stage handed on is at a later stage  *)
(* while another task is at the first.                                     *)
TwoStagesOccupied ==
    \E t, u \in Resident(World) :
        /\ t # u
        /\ InProcess(World, t, 1) + Len(SelectSeq(deployments[1].tasks,
                                                  LAMBDA x : x = t)) = 1
        /\ \E k \in 2..Len(deployments) :
              InProcess(World, u, k) + Len(SelectSeq(deployments[k].tasks,
                                                     LAMBDA x : x = u)) = 1

(* The log's entries about the start of task t's processing. *)
Starts(w, t) == SelectSeq(w.obs.log, LAMBDA l : l.op = "init" /\ l.task = t)

(* C19: a task's life time never increases and is never reset: over every  *)
(* operation it is reduced by the durations (each >= 1) of the processings *)
(* of the task that started in the operation and by nothing else, whether  *)
(* the task was queued, rejected or handed on; life_time_base never        *)
(* changes, and life_time never exceeds it.                                *)
LifeTimeDecreases ==
    /\ \A t \in DOMAIN life_time : life_time[t] <= life_time_base[t]
    /\ \A w \in AnyRun :
          /\ \A t \in DOMAIN life_time :
                /\ w.life_time[t] <= life_time[t]
                /\ w.life_time_base[t] = life_time_base[t]
                /\ w.life_time[t] = life_time[t] - SumField(Starts(w, t), "x")
          /\ \A t \in DOMAIN w.life_time \ DOMAIN life_time :
                w.life_time[t] = w.life_time_base[t] - SumField(Starts(w, t), "x")
          /\ \A i \in 1..Len(w.obs.log) :
                w.obs.log[i].op = "init" => w.obs.log[i].x >= 1

(* C19 witness: a task is at a later stage with less life time than it was *)
(* submitted with.                                                         *)
OlderDownstream ==
    \E t \in Resident(World) :
        /\ Queued(t, 2) + Processing(t) - InProcess(World, t, 1) = 1
        /\ life_time[t] < life_time_base[t]

(* The order in which the completions that an update can fire were         *)
(* scheduled: those scheduled before the operation, then those scheduled   *)
(* in it.                                                                  *)
Scheduled(w) ==
    LET before == SelectSeq(queue, LAMBDA e : e.kind = "Timeout")
        during == Entries(w, {"init"})
    IN  [i \in 1..Len(before) |->
            <<before[i].task, pods[before[i].pod].deployment>>]
        \o [i \in 1..Len(during) |-> <<during[i].task, during[i].stage>>]

Position(seq, t) == CHOOSE i \in 1..Len(seq) : seq[i] = t

(* C20: update(steps) leaves the clock at now + steps, and no operation    *)
(* moves it backwards; what happens during an update happens in            *)
(* nondecreasing time, and of the completions that fire at the same        *)
(* instant the one scheduled first fires first.                            *)
ClockAndOrder ==
    /\ \A w \in AnyRun : w.now >= now
    /\ err = "ok" =>
          \A steps \in Steps : \A w \in UpdateRuns(steps) :
              /\ ~w.exc => w.now = now + steps
              /\ \A i \in 1..Len(w.obs.log) :
                    /\ w.obs.log[i].time >= now
                    /\ w.obs.log[i].time < now + steps
              /\ \A i, j \in 1..Len(w.obs.log) : i < j =>
                    w.obs.log[i].time <= w.obs.log[j].time
              /\ \A i, j \in 1..Len(Entries(w, {"ended"})) :
                    LET a == Entries(w, {"ended"})[i]
                        b == Entries(w, {"ended"})[j]
                    IN  (i < j /\ a.time = b.time) =>
                           Position(Scheduled(w), <<a.task, a.stage>>)
                              < Position(Scheduled(w), <<b.task, b.stage>>)

(* C20 witness: the clock has advanced and two completions are scheduled   *)
(* for the same instant.                                                   *)
SameInstant ==
    /\ now >= 1
    /\ \E i, j \in 1..Len(queue) :
          /\ i < j
          /\ queue[i].kind = "Timeout" /\ queue[j].kind = "Timeout"
          /\ queue[i].time = queue[j].time

(* C21: update drains the queue as far as the pods' capacity allows: no    *)
(* pass of update, in any operation, ends with a task queued while a pod   *)
(* that was given a task in the pass can accept the head.                  *)
QueueDrained == \A w \in AnyRun : w.obs.undrained = 0

(* C22: canProcess answers as its two checks on their own samples do: it   *)
(* can return TRUE, or FALSE, exactly if cpu + a draw of the cpu cost <=    *)
(* cpu_max and memory + a draw of the memory cost <= memory_max can be     *)
(* both true, or not both.                                                 *)
CanProcessOwnSamples ==
    \A k \in 1..Len(deployments) : \A i \in 1..Len(deployments[k].pods) :
        LET p == deployments[k].pods[i]
        IN  canProcessResults(World, k, p) =
               {pods[p].cpu + c <= CpuMax /\ pods[p].memory + m <= MemoryMax :
                   c \in deployments[k].cpu_draws,
                   m \in deployments[k].memory_draws}

(* The sum of a field over the first n pods of deployment k's list. *)
RECURSIVE Total(_, _, _, _)
Total(w, k, field, n) ==
    IF n = 0 THEN 0
    ELSE w.pods[w.deployments[k].pods[n]][field] + Total(w, k, field, n - 1)

(* What getMetrics has to report of deployment k in the state it leaves. *)
Reported(w, k, r) ==
    LET d == w.deployments[k]
        n == Len(d.pods)
    IN  /\ Len(r) = 11
        /\ r[1] = n
        /\ r[2] = Cardinality({i \in 1..n : w.pods[d.pods[i]].nr_active_tasks >= 1})
        /\ r[3] = Total(w, k, "nr_active_tasks", n)
        /\ r[4] = Total(w, k, "cpu", n)
        /\ r[5] = n * CpuMax
        /\ r[6] = Total(w, k, "memory", n)
        /\ r[7] = n * MemoryMax
        /\ r[8] = Len(d.tasks)
        /\ r[9] = d.nr_done
        /\ r[10] = d.nr_dead
        /\ r[11] = d.nr_err5xx
        /\ r[2] <= r[1]
        /\ r[2] <= r[3]

(* C23: getMetrics runs update and reports the state after it, in the      *)
(* fixed order: the submitted and completed counters, then for each        *)
(* deployment the pod count, the active pods, the active tasks, the cpu    *)
(* usage and capacity, the memory usage and capacity, the queue length and *)
(* the done, dead and rejection counters; what it leaves is what a pass of *)
(* update leaves.                                                          *)
MetricsReport ==
    err = "ok" =>
        \A w \in GetMetricsRuns : ~w.exc =>
            /\ Len(w.obs.res) = 2 + Len(deployments)
            /\ w.obs.res[1] = nr_tasks
            /\ w.obs.res[2] = nr_done
            /\ \A k \in 1..Len(deployments) : Reported(w, k, w.obs.res[k + 2])
            /\ Len(deployments) = 1 =>
                  \E u \in update(World, 1) :
                      /\ u.deployments = w.deployments
                      /\ u.pods = w.pods
                      /\ u.queue = w.queue

(* C23 witness: of a deployment's two pods one has two active tasks and    *)
(* the other none.                                                         *)
ActivePodsAndTasks ==
    \E k \in 1..Len(deployments) :
        /\ \E i \in 1..Len(deployments[k].pods) :
              pods[deployments[k].pods[i]].nr_active_tasks >= 2
        /\ \E i \in 1..Len(deployments[k].pods) :
              pods[deployments[k].pods[i]].nr_active_tasks = 0

(* The processes of the pods of deployment k. *)
InStage(k) ==
    Len(SelectSeq(queue, LAMBDA e : e.kind # "Failed" /\ pods[e.pod].deployment = k))

(* C24: in every reachable state the done counter of a deployment is the   *)
(* number of tasks its successor holds in its queue and in the processes   *)
(* of its pods plus the successor's done, dead and rejection counters, and *)
(* the cluster's completed counter is the last deployment's done counter.  *)
FlowBalance ==
    /\ \A k \in 2..Len(deployments) :
          deployments[k - 1].nr_done =
              Len(deployments[k].tasks) + InStage(k) + deployments[k].nr_done
              + deployments[k].nr_dead + deployments[k].nr_err5xx
    /\ nr_done = deployments[Len(deployments)].nr_done

(* C24 witness: of the tasks the first deployment has done the second      *)
(* holds one in a process and has counted another, and the cluster has     *)
(* completed a task.                                                       *)
SuccessorHoldsAndCounts ==
    /\ Len(deployments) >= 2
    /\ InStage(2) >= 1
    /\ deployments[2].nr_done + deployments[2].nr_dead + deployments[2].nr_err5xx >= 1
    /\ nr_done >= 1

(* C25: a completion does not update its deployment.  While the clock      *)
(* advances, a deployment that is offered no task keeps its queue, its pod *)
(* list and its to_remove, none of its tasks is dispatched and of its      *)
(* fields only nr_done and nr_dead change; a pod on which no task ended    *)
(* and none started is unchanged.                                          *)
CompletionLeavesQueue ==
    err = "ok" =>
        \A steps \in Steps : \A w \in UpdateRuns(steps) : ~w.exc =>
            /\ \A k \in 1..Len(deployments) :
                  CountAt(w, "queued", k) + CountAt(w, "rejected", k) = 0 =>
                      /\ w.deployments[k].tasks = deployments[k].tasks
                      /\ w.deployments[k].pods = deployments[k].pods
                      /\ w.deployments[k].to_remove = deployments[k].to_remove
                      /\ CountAt(w, "started", k) = 0
                      /\ [w.deployments[k] EXCEPT
                             !.nr_done = deployments[k].nr_done,
                             !.nr_dead = deployments[k].nr_dead] = deployments[k]
            /\ \A p \in DOMAIN pods :
                  (\A i \in 1..Len(w.obs.log) :
                      w.obs.log[i].op \in {"ended", "started"} => w.obs.log[i].x # p) =>
                      w.pods[p] = pods[p]

(* C25 witness: a listed pod has completed a task and holds none, while a  *)
(* task waits in its deployment's queue.                                   *)
FreePodQueuedTask ==
    /\ err = "ok"
    /\ \E k \in 1..Len(deployments) :
          /\ Len(deployments[k].tasks) >= 1
          /\ \E i \in 1..Len(deployments[k].pods) :
                /\ pods[deployments[k].pods[i]].nr_done_tasks >= 1
                /\ pods[deployments[k].pods[i]].nr_active_tasks = 0

(* C26: in every reachable state every pod has seen as many tasks as it    *)
(* holds and has done (nr_tasks = nr_active_tasks + nr_done_tasks), holds  *)
(* no negative number of tasks, and no deployment's to_remove is negative. *)
PodCounters ==
    /\ \A p \in DOMAIN pods :
          /\ pods[p].nr_tasks = pods[p].nr_active_tasks + pods[p].nr_done_tasks
          /\ pods[p].nr_active_tasks >= 0
    /\ \A k \in 1..Len(deployments) : deployments[k].to_remove >= 0

(* C26 witness: a pod that has completed a task holds another one while   *)
(* its deployment waits to remove a pod.                                   *)
DoneAndActive ==
    \E p \in DOMAIN pods :
        /\ pods[p].nr_done_tasks >= 1
        /\ pods[p].nr_active_tasks >= 1
        /\ deployments[pods[p].deployment].to_remove >= 1

====
